---- MODULE Spec2Model ----
(***************************************************************************)
(* Navigation stack of the PortaPack UI                                    *)
(* (firmware/application/ui_navigation.cpp): NavigationView owns a stack   *)
(* of heap-allocated views, exactly one of which is attached as its child; *)
(* SystemView wires it to the SystemStatusView (back button and title).    *)
(*                                                                         *)
(* The UI is single-threaded and every handler runs to completion, so each *)
(* action below is one whole handler.  The operators take and return the   *)
(* program state as a record, so that a handler can be composed from the   *)
(* calls it makes, in the order the code makes them.                       *)
(***************************************************************************)
EXTENDS Integers, Sequences, FiniteSets, TLC

VARIABLES
    view_stack,       \* NavigationView::view_stack, views as object addresses
    children_,        \* NavigationView's children_ (the attached views)
    modal_view,       \* NavigationView::modal_view, Null or an address
    heap,             \* the view objects: address -> object, NoObject if none
    focused,          \* the view that last received focus(), or Null
    button_back,      \* SystemStatusView::button_back: text and focusable flag
    title,            \* SystemStatusView::title: the text shown
    on_back,          \* SystemStatusView::on_back is set
    on_view_changed,  \* NavigationView::on_view_changed is set
    fault,            \* undefined behaviour was executed
    trace,            \* what the last handler did, in order
    notified,         \* what on_view_changed saw, each time the last handler fired it
    returned,         \* the pointer the last handler's push_view returned, or Null
    lastOp,           \* the last handler that ran
    prevOp,           \* the handler that ran before it
    before            \* the observable state the last handler started from

vars == <<view_stack, children_, modal_view, heap, focused, button_back, title,
          on_back, on_view_changed, fault, trace, notified, returned, lastOp, prevOp,
          before>>

\* Bounds of the model.
MaxViews == 3      \* addresses the allocator can hand out
MaxDepth == 3      \* deepest stack explored

Null == 0
ViewIds == 1..MaxViews

\* View::title() of the views that can be pushed; "" is the base class's answer.
Titles == {"", "Receiver"}
\* Messages of a modal dialog.
Messages == {"Disk full", "No SD card"}

default_title == "default_title"
back_text_enabled == "back_text_enabled"
back_text_disabled == "back_text_disabled"

NoObject == [live |-> FALSE, modal |-> FALSE, title |-> "", message |-> ""]
\* A view other than a modal dialog, with the title its class declares.
PlainView(t) == [live |-> TRUE, modal |-> FALSE, title |-> t, message |-> ""]
\* ModalMessageView(nav, title, message): title_ { title }, text_message.set(message)
ModalMessageView(t, m) == [live |-> TRUE, modal |-> TRUE, title |-> t, message |-> m]

\* The program state as one record.
St == [view_stack |-> view_stack, children_ |-> children_, modal_view |-> modal_view,
       heap |-> heap, focused |-> focused, button_back |-> button_back, title |-> title,
       on_back |-> on_back, on_view_changed |-> on_view_changed, fault |-> fault,
       trace |-> trace, notified |-> notified, returned |-> returned]

Last(q) == q[Len(q)]
Front(q) == SubSeq(q, 1, Len(q) - 1)
Event(e, w) == [ev |-> e, view |-> w]
Log(s, e, w) == [s EXCEPT !.trace = Append(@, Event(e, w))]
\* Addresses the allocator may return: those of no live object.
FreeIds(s) == {v \in ViewIds : ~s.heap[v].live}

(***************************************************************************)
(* Widget framework calls (ui_widget.cpp): attach and detach a child.      *)
(***************************************************************************)
add_child(s, w) ==
    IF w = Null THEN s
    ELSE Log([s EXCEPT !.children_ = Append(@, w)], "add_child", w)

remove_child(s, w) ==
    IF w = Null THEN s
    ELSE Log([s EXCEPT !.children_ = SelectSeq(@, LAMBDA c : c # w)], "remove_child", w)

(***************************************************************************)
(* SystemStatusView                                                        *)
(***************************************************************************)
\* Slip: the caption changes, the focusable flag is left as it was.
set_back_enabled_text_only(s, new_value) ==
    [s EXCEPT !.button_back.text =
        IF new_value THEN back_text_enabled ELSE back_text_disabled]

set_back_enabled(s, new_value) ==
    [s EXCEPT !.button_back =
        [text |-> IF new_value THEN back_text_enabled ELSE back_text_disabled,
         focusable |-> new_value]]

set_title(s, new_value) ==
    IF new_value = "" THEN [s EXCEPT !.title = default_title]
    ELSE [s EXCEPT !.title = new_value]

(***************************************************************************)
(* NavigationView                                                          *)
(***************************************************************************)
is_top(s) == Len(s.view_stack) = 1

view(s) == IF s.children_ = <<>> THEN Null ELSE s.children_[1]

focus(s) ==
    IF view(s) # Null
    THEN Log([s EXCEPT !.focused = view(s),
                       !.fault = @ \/ ~s.heap[view(s)].live],  \* call on a deleted view
             "focus", view(s))
    ELSE s

\* Slip: the current view is never detached.
free_view_nothing(s) == s

free_view(s) == remove_child(s, view(s))

\* The lambda SystemView installs as navigation_view.on_view_changed.
system_view_on_view_changed(s, new_view) ==
    set_title(set_back_enabled(s, ~is_top(s)), s.heap[new_view].title)

\* What an observer of on_view_changed can see when it is called.
Seen(s, new_view) ==
    [view |-> new_view, view_stack |-> s.view_stack, children_ |-> s.children_,
     focused |-> s.focused, modal_view |-> s.modal_view]

\* Slip: the notification is sent before the new view is attached and focused.
update_view_notifies_first(s) ==
    IF s.view_stack = <<>>
    THEN [s EXCEPT !.fault = TRUE]
    ELSE LET new_view == Last(s.view_stack)
             s0 == IF s.on_view_changed
                   THEN system_view_on_view_changed(
                            Log([s EXCEPT !.notified = Append(@, Seen(s, new_view))],
                                "on_view_changed", new_view),
                            new_view)
                   ELSE s
             s1 == add_child(s0, new_view)
             s2 == focus(s1)
         IN  Log(s2, "set_dirty", Null)

\* Slip: the new view is attached but the focus is not moved to it.
update_view_no_focus(s) ==
    IF s.view_stack = <<>>
    THEN [s EXCEPT !.fault = TRUE]
    ELSE LET new_view == Last(s.view_stack)
             s1 == add_child(s, new_view)
             s3 == Log(s1, "set_dirty", Null)
         IN  IF s3.on_view_changed
             THEN system_view_on_view_changed(
                      Log([s3 EXCEPT !.notified = Append(@, Seen(s3, new_view))],
                          "on_view_changed", new_view),
                      new_view)
             ELSE s3

update_view(s) ==
    IF s.view_stack = <<>>
    THEN [s EXCEPT !.fault = TRUE]     \* back() of an empty vector
    ELSE LET new_view == Last(s.view_stack)
             s1 == add_child(s, new_view)
             s2 == focus(s1)
             s3 == Log(s2, "set_dirty", Null)
         IN  IF s3.on_view_changed
             THEN system_view_on_view_changed(
                      Log([s3 EXCEPT !.notified = Append(@, Seen(s3, new_view))],
                          "on_view_changed", new_view),
                      new_view)
             ELSE s3

\* Slip: the view on display is left attached when the next one is pushed.
push_view_keeps_old(s, new_view) ==
    LET s2 == [s EXCEPT !.view_stack = Append(@, new_view)]
        s3 == update_view(s2)
    IN  [s3 EXCEPT !.returned = new_view]

\* Slip: the new view takes the place of the top instead of going above it.
push_view_replaces_top(s, new_view) ==
    LET s1 == free_view(s)
        s2 == [s1 EXCEPT !.view_stack =
                  IF @ = <<>> THEN <<new_view>> ELSE Append(Front(@), new_view)]
        s3 == update_view(s2)
    IN  [s3 EXCEPT !.returned = new_view]

push_view(s, new_view) ==
    LET s1 == free_view(s)
        p  == new_view
        s2 == [s1 EXCEPT !.view_stack = Append(@, new_view)]
        s3 == update_view(s2)
    IN  [s3 EXCEPT !.returned = p]

\* push<T>(args...): new T { *this, args... } handed to push_view.
push(s, v, obj) == push_view([s EXCEPT !.heap[v] = obj], v)

\* view_stack.pop_back(): the unique_ptr deletes its view.
pop_back(s) ==
    IF s.view_stack = <<>>
    THEN [s EXCEPT !.fault = TRUE]
    ELSE LET v == Last(s.view_stack)
         IN  Log([s EXCEPT !.view_stack = Front(@),
                           !.heap[v] = NoObject,
                           !.fault = @ \/ ~s.heap[v].live],
                 "delete", v)

\* Slip: the guard lets the last view go too.
pop_off_by_one(s) ==
    LET s1 == IF view(s) = s.modal_view THEN [s EXCEPT !.modal_view = Null] ELSE s
    IN  IF Len(s1.view_stack) >= 1
        THEN update_view(pop_back(free_view(s1)))
        ELSE s1

\* Slip: the view is deleted while still attached.
pop_skips_free_view(s) ==
    LET s1 == IF view(s) = s.modal_view THEN [s EXCEPT !.modal_view = Null] ELSE s
    IN  IF Len(s1.view_stack) > 1
        THEN update_view(pop_back(s1))
        ELSE s1

\* Slip: the modal reference survives the dialog.
pop_keeps_modal(s) ==
    IF Len(s.view_stack) > 1
    THEN update_view(pop_back(free_view(s)))
    ELSE s

\* Slip: every pop forgets the dialog, whichever view it removes.
pop_clears_modal_always(s) ==
    LET s1 == [s EXCEPT !.modal_view = Null]
    IN  IF Len(s1.view_stack) > 1
        THEN update_view(pop_back(free_view(s1)))
        ELSE s1

\* Slip: a pop at the root re-attaches the root and notifies.
pop_refreshes_root(s) ==
    LET s1 == IF view(s) = s.modal_view THEN [s EXCEPT !.modal_view = Null] ELSE s
    IN  IF Len(s1.view_stack) > 1
        THEN update_view(pop_back(free_view(s1)))
        ELSE update_view(free_view(s1))

\* Slip: a pop from depth three or more takes two views off.
pop_removes_two(s) ==
    LET s1 == IF view(s) = s.modal_view THEN [s EXCEPT !.modal_view = Null] ELSE s
    IN  IF Len(s1.view_stack) > 2
        THEN update_view(pop_back(pop_back(free_view(s1))))
        ELSE IF Len(s1.view_stack) > 1
        THEN update_view(pop_back(free_view(s1)))
        ELSE s1

pop(s) ==
    LET s1 == IF view(s) = s.modal_view THEN [s EXCEPT !.modal_view = Null] ELSE s
    IN  IF Len(s1.view_stack) > 1
        THEN update_view(pop_back(free_view(s1)))
        ELSE s1

\* Slip: no check for a dialog already on display.
display_modal_unguarded(s, v, t, m) ==
    IF v = Null THEN s     \* the model is out of addresses
    ELSE LET s1 == push(s, v, ModalMessageView(t, m))
         IN  [s1 EXCEPT !.modal_view = s1.returned]

display_modal(s, v, t, m) ==
    IF s.modal_view = Null
    THEN LET s1 == push(s, v, ModalMessageView(t, m))
         IN  [s1 EXCEPT !.modal_view = s1.returned]
    ELSE s

\* Slip: the back button is not wired to the stack.
button_back_on_select_unwired(s) == s

\* button_back.on_select, and the on_back SystemView installs.
button_back_on_select(s) == IF s.on_back THEN pop(s) ELSE s

(***************************************************************************)
(* The state machine                                                       *)
(***************************************************************************)
\* The part of the state a user or a caller can observe.
Obs(s) == [view_stack |-> s.view_stack, children_ |-> s.children_,
           modal_view |-> s.modal_view, heap |-> s.heap, focused |-> s.focused,
           button_back |-> s.button_back, title |-> s.title]

NoObs == [view_stack |-> <<>>, children_ |-> <<>>, modal_view |-> Null,
          heap |-> [v \in ViewIds |-> NoObject], focused |-> Null,
          button_back |-> [text |-> "", focusable |-> FALSE], title |-> ""]

\* A handler starts with an empty log.
Begin(s) == [s EXCEPT !.trace = <<>>, !.notified = <<>>, !.returned = Null]

Assign(r, op, b) ==
    /\ view_stack' = r.view_stack
    /\ children_' = r.children_
    /\ modal_view' = r.modal_view
    /\ heap' = r.heap
    /\ focused' = r.focused
    /\ button_back' = r.button_back
    /\ title' = r.title
    /\ on_back' = r.on_back
    /\ on_view_changed' = r.on_view_changed
    /\ fault' = r.fault
    /\ trace' = r.trace
    /\ notified' = r.notified
    /\ returned' = r.returned
    /\ lastOp' = op
    /\ prevOp' = lastOp
    /\ before' = b

Is(r, op, b) ==
    /\ view_stack = r.view_stack
    /\ children_ = r.children_
    /\ modal_view = r.modal_view
    /\ heap = r.heap
    /\ focused = r.focused
    /\ button_back = r.button_back
    /\ title = r.title
    /\ on_back = r.on_back
    /\ on_view_changed = r.on_view_changed
    /\ fault = r.fault
    /\ trace = r.trace
    /\ notified = r.notified
    /\ returned = r.returned
    /\ lastOp = op
    /\ prevOp = "none"
    /\ before = b

\* The members of SystemView as constructed, before the constructor's body.
Constructed(focusable) ==
    [view_stack |-> <<>>, children_ |-> <<>>, modal_view |-> Null,
     heap |-> [v \in ViewIds |-> NoObject], focused |-> Null,
     button_back |-> [text |-> back_text_disabled, focusable |-> focusable],
     title |-> default_title,
     on_back |-> FALSE, on_view_changed |-> FALSE, fault |-> FALSE,
     trace |-> <<>>, notified |-> <<>>, returned |-> Null]

\* SystemView::SystemView: wire the status bar and push the initial view.
SystemView(s, v, t) ==
    push([s EXCEPT !.on_back = TRUE, !.on_view_changed = TRUE], v, PlainView(t))

Init ==
    \E v \in ViewIds, t \in Titles, f \in BOOLEAN :
        Is(SystemView(Constructed(f), v, t), "SystemView", NoObs)

\* A view's action pushes another view: nav.push<T>().
Push ==
    /\ Len(view_stack) < MaxDepth
    /\ \E v \in FreeIds(St), t \in Titles :
           Assign(push(Begin(St), v, PlainView(t)), "push", Obs(St))

\* A view's action (on_left, a Done or No button): nav.pop().
Pop == Assign(pop(Begin(St)), "pop", Obs(St))

\* The status bar's back button is selected.
Back == Assign(button_back_on_select(Begin(St)), "back", Obs(St))

\* nav.display_modal(title, message)
DisplayModal ==
    /\ modal_view = Null => Len(view_stack) < MaxDepth
    \* v is the address the allocator hands out if the dialog is constructed
    /\ \E v \in (IF FreeIds(St) = {} THEN {Null} ELSE FreeIds(St)),
          t \in Titles, m \in Messages :
           Assign(display_modal(Begin(St), v, t, m), "display_modal", Obs(St))

\* A NavigationView on its own, as constructed: nothing pushed yet, and the
\* handlers as they are at some point of SystemView's constructor.
InitNav ==
    \E f \in BOOLEAN, h \in {<<FALSE, FALSE>>, <<TRUE, FALSE>>, <<TRUE, TRUE>>} :
        Is([Constructed(f) EXCEPT !.on_back = h[1], !.on_view_changed = h[2]],
           "NavigationView", NoObs)

Next == Push \/ Pop \/ Back \/ DisplayModal

Spec == Init /\ [][Next]_vars

SpecNav == InitNav /\ [][Next]_vars

(***************************************************************************)
(* Properties                                                              *)
(***************************************************************************)
Range(q) == {q[i] : i \in DOMAIN q}
Count(tr, e) == Cardinality({i \in DOMAIN tr : tr[i] = e})
\* The last handler was a pop that reached NavigationView::pop.
Popped == \/ lastOp = "pop"
          \/ lastOp = "back" /\ on_back
\* The title the status bar shows for view v.
Shown(v) == IF heap[v].title = "" THEN default_title ELSE heap[v].title

\* C1: in the system SystemView constructs the stack is never empty, and a
\* pop of a stack of one view leaves the stack, and the view in it, as they were.
C1_NeverEmpty ==
    /\ Len(view_stack) >= 1
    /\ (lastOp \in {"pop", "back"} /\ Len(before.view_stack) = 1) =>
           /\ view_stack = before.view_stack
           /\ heap[view_stack[1]] = before.heap[view_stack[1]]

C1_Witness ==
    /\ lastOp = "pop"
    /\ Len(before.view_stack) = 1
    /\ view_stack = before.view_stack

\* C2: after a push_view(v), from the empty stack too, v is the last entry of
\* the stack, the view view() returns, the only child, and the pointer returned.
C2_PushedIsCurrent ==
    /\ lastOp = "push" => returned # Null
    /\ (lastOp = "display_modal" /\ before.modal_view = Null) => returned # Null
    /\ returned # Null =>
           /\ view_stack = Append(before.view_stack, returned)
           /\ Last(view_stack) = returned
           /\ view(St) = returned
           /\ children_ = <<returned>>
           /\ heap[returned].live
           /\ ~before.heap[returned].live

C2_Witness ==
    /\ lastOp = "push"
    /\ before.view_stack = <<>>
    /\ returned # Null
    /\ children_ = <<returned>>

\* C3: a pop of a stack of more than one view shows the view that was second
\* from the top, alone, and detaches and then deletes the old top, once; no view
\* is deleted twice, none is deleted while on the stack, and every view taken
\* off the stack is deleted.
C3_PopDestroysOnce ==
    /\ ~fault
    /\ \A v \in ViewIds : heap[v].live <=> v \in Range(view_stack)
    /\ \A i \in DOMAIN trace :
           trace[i].ev = "delete" =>
               /\ Count(trace, trace[i]) = 1
               /\ before.heap[trace[i].view].live
               /\ trace[i].view \notin Range(view_stack)
    /\ \A v \in Range(before.view_stack) \ Range(view_stack) :
           Count(trace, Event("delete", v)) = 1
    /\ (Popped /\ Len(before.view_stack) > 1) =>
           LET n == Len(before.view_stack)
               old == before.view_stack[n]
               second == before.view_stack[n - 1]
           IN  /\ view_stack = Front(before.view_stack)
               /\ view(St) = second
               /\ children_ = <<second>>
               /\ Count(trace, Event("remove_child", old)) = 1
               /\ Count(trace, Event("delete", old)) = 1
               /\ \E i, j \in DOMAIN trace :
                      /\ i < j
                      /\ trace[i] = Event("remove_child", old)
                      /\ trace[j] = Event("delete", old)

C3_Witness ==
    /\ lastOp = "pop"
    /\ Len(before.view_stack) = 3
    /\ view(St) = before.view_stack[2]
    /\ ~heap[before.view_stack[3]].live

\* C4: between operations exactly one view is attached, the top of the stack,
\* and view() returns it.
C4_OneAttached ==
    /\ Len(children_) = 1
    /\ children_[1] = Last(view_stack)
    /\ view(St) = Last(view_stack)

C4_Witness ==
    /\ lastOp = "pop"
    /\ Len(before.view_stack) = 3
    /\ children_ = <<before.view_stack[2]>>

\* C5: a display_modal with no dialog open adds one entry, the dialog; a
\* display_modal with a dialog open, and so every display_modal that follows
\* another, changes nothing and notifies nobody.
C5_ModalIdempotent ==
    [][lastOp' = "display_modal" =>
          IF modal_view # Null \/ lastOp = "display_modal"
          THEN Obs(St)' = Obs(St) /\ notified' = <<>>
          ELSE /\ Len(view_stack') = Len(view_stack) + 1
               /\ Front(view_stack') = view_stack
               /\ modal_view' = Last(view_stack')
               /\ heap'[modal_view'].modal]_vars

C5_Witness ==
    /\ lastOp = "display_modal"
    /\ prevOp = "display_modal"
    /\ Len(view_stack) = 2
    /\ modal_view = view_stack[2]
    /\ Obs(St) = before

\* C6: a pop while the dialog is the top of a stack of more than one view takes
\* the dialog off and clears modal_view, and the display_modal after such a pop
\* pushes a new dialog and records it.
C6_DismissReopens ==
    [][/\ (/\ lastOp' \in {"pop", "back"}
           /\ Len(view_stack) > 1
           /\ modal_view # Null
           /\ Last(view_stack) = modal_view) =>
              /\ modal_view' = Null
              /\ view_stack' = Front(view_stack)
              /\ ~heap'[modal_view].live
       /\ (/\ lastOp \in {"pop", "back"}
           /\ before.modal_view # Null
           /\ Last(before.view_stack) = before.modal_view
           /\ lastOp' = "display_modal") =>
              /\ view_stack' = Append(view_stack, modal_view')
              /\ modal_view' # Null
              /\ heap'[modal_view'].modal]_vars

C6_Witness ==
    /\ lastOp = "pop"
    /\ Len(before.view_stack) > 1
    /\ before.modal_view # Null
    /\ Last(before.view_stack) = before.modal_view
    /\ modal_view = Null
    /\ ENABLED DisplayModal

\* C7: the back button is enabled and focusable exactly when the stack holds
\* more than one view, and the title shown is the top view's, or the default
\* title when that is empty.
C7_StatusMirrors ==
    /\ button_back.focusable <=> Len(view_stack) > 1
    /\ button_back.text = back_text_enabled <=> Len(view_stack) > 1
    /\ button_back.text = back_text_disabled <=> Len(view_stack) = 1
    /\ title = Shown(Last(view_stack))

C7_Witness ==
    /\ lastOp = "back"
    /\ Len(before.view_stack) = 2
    /\ Len(view_stack) = 1
    /\ before.title = "Receiver"
    /\ title = default_title
    /\ ~button_back.focusable

\* C8: a pop right after a push restores what could be observed before the
\* push: stack, attached view, modal reference, title and back button.
C8_PushPopRoundTrip ==
    [][(lastOp = "push" /\ lastOp' \in {"pop", "back"}) => Obs(St)' = before]_vars

C8_Witness ==
    /\ lastOp = "pop"
    /\ prevOp = "push"
    /\ Len(view_stack) = 2
    /\ modal_view = view_stack[2]
    /\ button_back.focusable

\* C9: when on_view_changed is called, the new top is on the stack, is the
\* only attached view and has the focus, and it is the view handed over.
C9_NotifiedAfterAttach ==
    \A i \in DOMAIN notified :
        LET n == notified[i]
        IN  /\ n.view_stack # <<>>
            /\ n.view = Last(n.view_stack)
            /\ n.children_ = <<n.view>>
            /\ n.focused = n.view

C9_Witness ==
    /\ lastOp = "pop"
    /\ Len(notified) = 1
    /\ notified[1].view = Last(view_stack)
    /\ Len(view_stack) = 2

\* C10: a pop at the root, from a view or from the back button, changes
\* nothing (stack, attached view, focus, modal reference, title, back button)
\* and fires no notification.
C10_PopAtRootNoOp ==
    [][(lastOp' \in {"pop", "back"} /\ Len(view_stack) = 1) =>
          /\ Obs(St)' = Obs(St)
          /\ notified' = <<>>
          /\ trace' = <<>>
          /\ ~fault']_vars

C10_Witness ==
    /\ lastOp = "back"
    /\ prevOp = "pop"
    /\ Len(before.view_stack) = 1
    /\ Obs(St) = before
    /\ notified = <<>>

\* C11: every operation is total: in every state, the empty stack included,
\* push, pop, display_modal, is_top, view and focus can be called and end
\* without undefined behaviour (back() is never read on an empty stack); a pop
\* of the root and a display_modal with a dialog open are no-ops.
C11_Total ==
    /\ ~fault
    /\ ~pop(Begin(St)).fault
    /\ ~button_back_on_select(Begin(St)).fault
    /\ \A v \in FreeIds(St), t \in Titles, m \in Messages :
           /\ ~push(Begin(St), v, PlainView(t)).fault
           /\ ~display_modal(Begin(St), v, t, m).fault
    /\ is_top(St) \in BOOLEAN
    /\ view(St) # Null => heap[view(St)].live
    /\ ~focus(St).fault
    /\ (Popped /\ Len(before.view_stack) = 1) =>
           /\ Obs(St) = before
           /\ trace = <<>>
    /\ (lastOp = "display_modal" /\ before.modal_view # Null) =>
           /\ Obs(St) = before
           /\ trace = <<>>

\* The positions of view_stack that hold a modal dialog.
Dialogs(st, h) == {i \in DOMAIN st : h[st[i]].modal}

\* C12: in the system SystemView constructs, modal_view is set exactly when a
\* dialog made by display_modal is on the stack, it refers to that dialog, and
\* the stack holds at most one dialog, also with other views pushed on top of
\* it; so a display_modal is suppressed only with a dialog on the stack.
C12_ModalRefMatchesStack ==
    /\ modal_view # Null <=> Dialogs(view_stack, heap) # {}
    /\ modal_view # Null =>
           /\ modal_view \in Range(view_stack)
           /\ heap[modal_view].modal
    /\ Cardinality(Dialogs(view_stack, heap)) <= 1
    /\ (lastOp = "display_modal" /\ returned = Null) =>
           Dialogs(before.view_stack, before.heap) # {}
    /\ (lastOp = "display_modal" /\ Dialogs(before.view_stack, before.heap) = {}) =>
           /\ returned # Null
           /\ modal_view = returned

C12_Witness ==
    /\ lastOp = "display_modal"
    /\ returned = Null
    /\ Len(view_stack) = 3
    /\ view_stack[2] = modal_view
    /\ ~heap[view_stack[3]].modal

\* C13: from an empty NavigationView, modal_view goes from set to null only in
\* a pop that takes the dialog it refers to off the stack; it is never cleared
\* while that dialog stays on the stack.
C13_ClearedOnlyOnRemoval ==
    (before.modal_view # Null /\ modal_view = Null) =>
        /\ Popped
        /\ before.modal_view \in Range(before.view_stack)
        /\ before.modal_view \notin Range(view_stack)
        /\ ~heap[before.modal_view].live

\* C14: the stack holds no dangling reference: between operations the attached
\* child and modal_view, when not null, are entries of view_stack, so views
\* that have not been deleted.
C14_NoDanglingReference ==
    /\ \A i \in DOMAIN children_ :
           /\ children_[i] \in Range(view_stack)
           /\ heap[children_[i]].live
    /\ view(St) # Null => view(St) \in Range(view_stack) /\ heap[view(St)].live
    /\ modal_view # Null => modal_view \in Range(view_stack) /\ heap[modal_view].live

C14_Witness ==
    /\ lastOp = "pop"
    /\ Len(before.view_stack) = 3
    /\ before.modal_view = before.view_stack[2]
    /\ modal_view = view_stack[2]
    /\ view(St) = modal_view
    /\ ~heap[before.view_stack[3]].live

\* C15: push, pop and display_modal change only the end of view_stack: the
\* entries below the top stay the same views at the same positions, no view is
\* on the stack twice, and the root SystemView pushed stays the root.
C15_OnlyTopChanges ==
    /\ Len(view_stack) >= 1
    /\ Cardinality(Range(view_stack)) = Len(view_stack)
    /\ lastOp # "SystemView" =>
           /\ \A i \in 1..(Len(before.view_stack) - 1) :
                  /\ i <= Len(view_stack)
                  /\ view_stack[i] = before.view_stack[i]
                  /\ heap[view_stack[i]] = before.heap[view_stack[i]]
           /\ \A i \in 1..(Len(view_stack) - 1) :
                  /\ i <= Len(before.view_stack)
                  /\ view_stack[i] = before.view_stack[i]
           /\ Len(before.view_stack) >= 1
           /\ view_stack[1] = before.view_stack[1]
           /\ heap[view_stack[1]] = before.heap[view_stack[1]]
           /\ Count(trace, Event("delete", view_stack[1])) = 0

C15_Witness ==
    /\ lastOp = "display_modal"
    /\ prevOp = "pop"
    /\ Len(view_stack) = 3
    /\ Front(view_stack) = before.view_stack
    /\ modal_view = view_stack[3]

\* C16: the depth follows the state machine: a push adds one; a pop takes one
\* off a stack of more than one view and none off a stack of one; a
\* display_modal adds one when modal_view is null and none otherwise; is_top()
\* holds exactly at depth one; no operation changes the depth by more than one.
C16_DepthStateMachine ==
    LET d0 == Len(before.view_stack)
        d1 == Len(view_stack)
    IN  /\ lastOp = "push" => d1 = d0 + 1
        /\ Popped => d1 = (IF d0 > 1 THEN d0 - 1 ELSE d0)
        /\ (lastOp = "back" /\ ~on_back) => d1 = d0
        /\ lastOp = "display_modal" =>
               d1 = (IF before.modal_view = Null THEN d0 + 1 ELSE d0)
        /\ is_top(St) <=> d1 = 1
        /\ d1 - d0 \in {-1, 0, 1}

C16_Witness ==
    /\ lastOp = "pop"
    /\ prevOp = "pop"
    /\ Len(before.view_stack) = 2
    /\ Len(view_stack) = 1
    /\ is_top(St)

\* The state after k presses of the back button and nothing else.
RECURSIVE BackPresses(_, _)
BackPresses(s, k) ==
    IF k = 0 THEN s ELSE BackPresses(button_back_on_select(Begin(s)), k - 1)

\* C17: from any state of depth n, back presses alone lead after exactly n - 1
\* of them to the root, with is_top() true, the back button disabled and
\* modal_view null, and further presses change nothing.
C17_BackReachesRoot ==
    LET n == Len(view_stack)
        r == BackPresses(St, n - 1)
    IN  /\ n >= 1
        /\ \A k \in 0..(n - 1) :
               /\ Len(BackPresses(St, k).view_stack) = n - k
               /\ k < n - 1 => ~is_top(BackPresses(St, k))
        /\ is_top(r)
        /\ r.view_stack = <<view_stack[1]>>
        /\ ~r.button_back.focusable
        /\ r.button_back.text = back_text_disabled
        /\ r.modal_view = Null
        /\ ~r.fault
        /\ \A k \in 1..2 : Obs(BackPresses(r, k)) = Obs(r)

C17_Witness ==
    /\ lastOp = "back"
    /\ prevOp = "back"
    /\ Len(before.view_stack) = 2
    /\ before.modal_view = before.view_stack[2]
    /\ is_top(St)
    /\ ~button_back.focusable
    /\ modal_view = Null

\* C18: after a push or pop that changes the stack the focus has gone to the
\* top of the stack, a view taken off the stack does not keep it, and focus()
\* does nothing when no view is attached.
C18_NoStaleFocus ==
    /\ view_stack # <<>> => focused = Last(view_stack)
    /\ focused # Null => focused \in Range(view_stack) /\ heap[focused].live
    /\ view_stack # before.view_stack =>
           /\ Count(trace, Event("focus", Last(view_stack))) = 1
           /\ \A i \in DOMAIN trace :
                  trace[i].ev = "focus" => trace[i].view = Last(view_stack)
    /\ \A v \in Range(before.view_stack) \ Range(view_stack) : focused # v
    /\ children_ = <<>> => focus(St) = St
    /\ children_ # <<>> => focus(St).focused = view(St)

C18_Witness ==
    /\ lastOp = "pop"
    /\ Len(before.view_stack) = 3
    /\ before.focused = before.view_stack[3]
    /\ focused = before.view_stack[2]
    /\ focused # before.focused

\* C19: when on_view_changed is called with a dialog pushed by display_modal
\* as the new top, modal_view already refers to that dialog.
C19_ModalSetBeforeNotify ==
    \A i \in DOMAIN notified :
        (lastOp = "display_modal" /\ heap[notified[i].view].modal) =>
            notified[i].modal_view = notified[i].view

====
